---- MODULE Spec2Model ----
(***************************************************************************)
(* PermissionsAndroid (Libraries/PermissionsAndroid/                       *)
(* PermissionsAndroid.android.js): the three public operations             *)
(* checkPermission, requestPermission and requestPermissionWithRationale,  *)
(* the promises they return, the native calls they hand to                 *)
(* AndroidPermissions and DialogManagerAndroid, and the callbacks the      *)
(* native layer delivers back.                                             *)
(*                                                                         *)
(* Every public call gets the next index c.  natives[c] is the ordered     *)
(* list of native invocations made on behalf of call c, each with the      *)
(* callbacks the native layer has delivered to it so far.                  *)
(***************************************************************************)
EXTENDS Naturals, Sequences, FiniteSets

VARIABLES PERMISSIONS, kind, args, handle, inner, natives, trace, jobs

vars == <<PERMISSIONS, kind, args, handle, inner, natives, trace, jobs>>

\* ------------------------------------------------------------------ bounds
\* Number of public calls made under Spec.
MaxCalls == 2
\* Under SpecRefire: callbacks one public call may receive beyond the first
\* callback of each of its native calls.
MaxExtra == 1

\* ------------------------------------------------------------------ values
Undefined == "undefined"
Bools == {"true", "false"}
\* Error values the native layer reports through a failure callback.
Errors == {"E_INVALID_ACTIVITY", "E_PERMISSION"}
\* Permission identifiers the caller passes: a catalog value and a string
\* that is not in the catalog.
Permissions == {"android.permission.CAMERA", "not.a.permission"}
\* The PERMISSIONS object as constructed.
Catalog ==
  [READ_CALENDAR |-> "android.permission.READ_CALENDAR",
   WRITE_CALENDAR |-> "android.permission.WRITE_CALENDAR",
   CAMERA |-> "android.permission.CAMERA",
   READ_CONTACTS |-> "android.permission.READ_CONTACTS",
   WRITE_CONTACTS |-> "android.permission.WRITE_CONTACTS",
   GET_ACCOUNTS |-> "android.permission.GET_ACCOUNTS",
   ACCESS_FINE_LOCATION |-> "android.permission.ACCESS_FINE_LOCATION",
   ACCESS_COARSE_LOCATION |-> "android.permission.ACCESS_COARSE_LOCATION",
   RECORD_AUDIO |-> "android.permission.RECORD_AUDIO",
   READ_PHONE_STATE |-> "android.permission.READ_PHONE_STATE",
   CALL_PHONE |-> "android.permission.CALL_PHONE",
   READ_CALL_LOG |-> "android.permission.READ_CALL_LOG",
   WRITE_CALL_LOG |-> "android.permission.WRITE_CALL_LOG",
   ADD_VOICEMAIL |-> "com.android.voicemail.permission.ADD_VOICEMAIL",
   USE_SIP |-> "android.permission.USE_SIP",
   PROCESS_OUTGOING_CALLS |-> "android.permission.PROCESS_OUTGOING_CALLS",
   BODY_SENSORS |-> "android.permission.BODY_SENSORS",
   SEND_SMS |-> "android.permission.SEND_SMS",
   RECEIVE_SMS |-> "android.permission.RECEIVE_SMS",
   READ_SMS |-> "android.permission.READ_SMS",
   RECEIVE_WAP_PUSH |-> "android.permission.RECEIVE_WAP_PUSH",
   RECEIVE_MMS |-> "android.permission.RECEIVE_MMS",
   READ_EXTERNAL_STORAGE |-> "android.permission.READ_EXTERNAL_STORAGE",
   WRITE_EXTERNAL_STORAGE |-> "android.permission.WRITE_EXTERNAL_STORAGE"]
Titles == {"T"}
Messages == {"M"}
ErrorMessage == "Error Requesting Permissions"
\* Entries of trace for the two alerts.
RationaleAlertTag == "showAlert({title, message})"
ErrorAlertTag == "showAlert({message: 'Error Requesting Permissions'})"

\* ---------------------------------------------------------------- promises
Pending == [state |-> "pending", value |-> Undefined]

\* Mutant: a deferred without the settled guard, the last resolve wins.
ResolveUnguarded(p, v) ==
  [state |-> "fulfilled", value |-> v]

\* resolve(v) of a promise: takes effect only while the promise is pending.
Resolve(p, v) ==
  IF p.state = "pending" THEN [state |-> "fulfilled", value |-> v] ELSE p

\* reject(v) of a promise: takes effect only while the promise is pending.
Reject(p, v) ==
  IF p.state = "pending" THEN [state |-> "rejected", value |-> v] ELSE p

\* ------------------------------------------------------------ native calls
\* One invocation of a native method.  callable: the two trailing arguments
\* are functions the native layer can call back; p: the promise the
\* callbacks settle (0: the handle returned to the caller, j > 0: inner[c][j]).
NativeCall(fn, permission, title, message, callable, p) ==
  [fn |-> fn, permission |-> permission, title |-> title, message |-> message,
   callable |-> callable, p |-> p, cbs |-> <<>>, acked |-> FALSE]

Callback(cb, val) == [cb |-> cb, val |-> val]

Calls == DOMAIN kind

\* Callbacks delivered to call c beyond the first one of each native call.
Extra(c) ==
  Cardinality({ki \in (DOMAIN natives[c]) \X (2..(MaxExtra + 1)) :
                 ki[2] <= Len(natives[c][ki[1]].cbs)})

\* The callback contract of the native layer: one callback per native call.
\* With a budget above 0 it may break the contract that many times per
\* public call.
NativeMayCall(c, k, budget) ==
  \/ natives[c][k].cbs = <<>>
  \/ Extra(c) < budget

\* The native layer may deliver a callback to native call k of call c: the
\* call was given functions to call back and JavaScript is idle (no promise
\* job is queued).
CanFire(c, k, budget) ==
  /\ c \in Calls
  /\ k \in DOMAIN natives[c]
  /\ natives[c][k].callable
  /\ jobs = <<>>
  /\ NativeMayCall(c, k, budget)

Deliver(c, k, cb, val) ==
  [natives[c] EXCEPT ![k].cbs = Append(@, Callback(cb, val))]

\* -------------------------------------------------------- public operations
\* Mutant: the id of every call is recorded in the PERMISSIONS object.
NewCallRegisters(k, a, first, limit) ==
  /\ Len(kind) < limit
  /\ PERMISSIONS' = [PERMISSIONS EXCEPT !.CAMERA = a.permission]
  /\ kind' = Append(kind, k)
  /\ args' = Append(args, a)
  /\ handle' = Append(handle, Pending)
  /\ inner' = Append(inner, <<>>)
  /\ natives' = Append(natives, <<first>>)
  /\ trace' = Append(trace, <<first.fn>>)
  /\ UNCHANGED jobs

NewCall(k, a, first, limit) ==
  /\ Len(kind) < limit
  /\ kind' = Append(kind, k)
  /\ args' = Append(args, a)
  /\ handle' = Append(handle, Pending)
  /\ inner' = Append(inner, <<>>)
  /\ natives' = Append(natives, <<first>>)
  /\ trace' = Append(trace, <<first.fn>>)
  /\ UNCHANGED <<PERMISSIONS, jobs>>

checkPermission(permission, limit) ==
  NewCall("checkPermission",
          [permission |-> permission, title |-> Undefined, message |-> Undefined],
          NativeCall("checkPermission", permission, Undefined, Undefined, TRUE, 0),
          limit)

requestPermission(permission, limit) ==
  NewCall("requestPermission",
          [permission |-> permission, title |-> Undefined, message |-> Undefined],
          NativeCall("requestPermission", permission, Undefined, Undefined, TRUE, 0),
          limit)

requestPermissionWithRationale(permission, title, message, limit) ==
  NewCall("requestPermissionWithRationale",
          [permission |-> permission, title |-> title, message |-> message],
          NativeCall("shouldShowRequestPermissionRationale", permission,
                     Undefined, Undefined, TRUE, 0),
          limit)

\* ------------------------------------------------- native callback handlers
\* Mutant: a native false is turned into a failure.
checkPermissionSuccessDeniedFails(c, k, result, budget) ==
  /\ CanFire(c, k, budget)
  /\ natives[c][k].fn = "checkPermission"
  /\ natives' = [natives EXCEPT ![c] = Deliver(c, k, "success", result)]
  /\ handle' = [handle EXCEPT ![c] =
       IF result = "true" THEN Resolve(@, result) ELSE Reject(@, Undefined)]
  /\ trace' = [trace EXCEPT ![c] = Append(@, "resolve")]
  /\ UNCHANGED <<PERMISSIONS, kind, args, inner, jobs>>

\* (perm, result) => resolve(result) of checkPermission.
checkPermissionSuccess(c, k, result, budget) ==
  /\ CanFire(c, k, budget)
  /\ natives[c][k].fn = "checkPermission"
  /\ natives' = [natives EXCEPT ![c] = Deliver(c, k, "success", result)]
  /\ handle' = [handle EXCEPT ![c] = Resolve(@, result)]
  /\ trace' = [trace EXCEPT ![c] = Append(@, "resolve")]
  /\ UNCHANGED <<PERMISSIONS, kind, args, inner, jobs>>

\* Mutant: a failed check is retried instead of reported.
checkPermissionFailureRetries(c, k, error, budget) ==
  /\ CanFire(c, k, budget)
  /\ natives[c][k].fn = "checkPermission"
  /\ natives' = [natives EXCEPT ![c] =
       Append(Deliver(c, k, "failure", error),
              NativeCall("checkPermission", args[c].permission,
                         Undefined, Undefined, TRUE, 0))]
  /\ trace' = [trace EXCEPT ![c] = Append(@, "checkPermission")]
  /\ UNCHANGED <<PERMISSIONS, kind, args, handle, inner, jobs>>

\* (error) => reject(error) of checkPermission.
checkPermissionFailure(c, k, error, budget) ==
  /\ CanFire(c, k, budget)
  /\ natives[c][k].fn = "checkPermission"
  /\ natives' = [natives EXCEPT ![c] = Deliver(c, k, "failure", error)]
  /\ handle' = [handle EXCEPT ![c] = Reject(@, error)]
  /\ trace' = [trace EXCEPT ![c] = Append(@, "reject")]
  /\ UNCHANGED <<PERMISSIONS, kind, args, inner, jobs>>

\* The promise of this.requestPermission(permission) made inside
\* requestPermissionWithRationale has .then(...).catch(...) attached: when it
\* settles, the reaction is queued as a promise job.
SettleInner(c, j, settled) ==
  /\ inner' = [inner EXCEPT ![c][j] = settled]
  /\ jobs' = IF inner[c][j].state = "pending"
               THEN Append(jobs, [call |-> c, p |-> j, stage |-> "then"])
               ELSE jobs
  /\ UNCHANGED <<handle, trace>>

\* (perm, result) => resolve(result) of requestPermission.
requestPermissionSuccess(c, k, result, budget) ==
  /\ CanFire(c, k, budget)
  /\ natives[c][k].fn = "requestPermission"
  /\ natives' = [natives EXCEPT ![c] = Deliver(c, k, "success", result)]
  /\ IF natives[c][k].p = 0
       THEN /\ handle' = [handle EXCEPT ![c] = Resolve(@, result)]
            /\ trace' = [trace EXCEPT ![c] = Append(@, "resolve")]
            /\ UNCHANGED <<inner, jobs>>
       ELSE SettleInner(c, natives[c][k].p,
                        Resolve(inner[c][natives[c][k].p], result))
  /\ UNCHANGED <<PERMISSIONS, kind, args>>

\* Mutant: pending resolvers are kept in a table shared by all calls and
\* keyed by permission, so a failure settles every call for that permission.
requestPermissionFailureShared(c, k, error, budget) ==
  /\ CanFire(c, k, budget)
  /\ natives[c][k].fn = "requestPermission"
  /\ natives' = [natives EXCEPT ![c] = Deliver(c, k, "failure", error)]
  /\ IF natives[c][k].p = 0
       THEN /\ handle' = [d \in DOMAIN handle |->
                 IF args[d].permission = args[c].permission
                   THEN Reject(handle[d], error) ELSE handle[d]]
            /\ trace' = [trace EXCEPT ![c] = Append(@, "reject")]
            /\ UNCHANGED <<inner, jobs>>
       ELSE SettleInner(c, natives[c][k].p,
                        Reject(inner[c][natives[c][k].p], error))
  /\ UNCHANGED <<PERMISSIONS, kind, args>>

\* (error) => reject(error) of requestPermission.
requestPermissionFailure(c, k, error, budget) ==
  /\ CanFire(c, k, budget)
  /\ natives[c][k].fn = "requestPermission"
  /\ natives' = [natives EXCEPT ![c] = Deliver(c, k, "failure", error)]
  /\ IF natives[c][k].p = 0
       THEN /\ handle' = [handle EXCEPT ![c] = Reject(@, error)]
            /\ trace' = [trace EXCEPT ![c] = Append(@, "reject")]
            /\ UNCHANGED <<inner, jobs>>
       ELSE SettleInner(c, natives[c][k].p,
                        Reject(inner[c][natives[c][k].p], error))
  /\ UNCHANGED <<PERMISSIONS, kind, args>>

\* let requestPermission = () => { this.requestPermission(permission)
\*   .then(...).catch(...) }: a new promise and a native requestPermission
\* for the permission of call c, issued while handling callback cb of
\* native call k.
requestPermissionClosure(c, k, cb, val) ==
  /\ natives' = [natives EXCEPT ![c] =
       Append(Deliver(c, k, cb, val),
              NativeCall("requestPermission", args[c].permission,
                         Undefined, Undefined, TRUE, Len(inner[c]) + 1))]
  /\ inner' = [inner EXCEPT ![c] = Append(@, Pending)]
  /\ trace' = [trace EXCEPT ![c] = Append(@, "requestPermission")]
  /\ UNCHANGED <<handle, jobs>>

\* Mutant: the dismiss argument is written reject() instead of
\* () => reject(), so the call fails as soon as the dialog is shown.
showRationaleAlertEagerReject(c, k, cb, val) ==
  /\ natives' = [natives EXCEPT ![c] =
       Append(Deliver(c, k, cb, val),
              NativeCall("showAlert", Undefined, args[c].title,
                         args[c].message, TRUE, 0))]
  /\ trace' = [trace EXCEPT ![c] = @ \o <<"reject", RationaleAlertTag>>]
  /\ handle' = [handle EXCEPT ![c] = Reject(@, Undefined)]
  /\ UNCHANGED <<inner, jobs>>

\* Mutant: the third argument is written requestPermission() instead of
\* requestPermission, so the native request is made when the dialog is shown.
showRationaleAlertCallsRequest(c, k, cb, val) ==
  /\ natives' = [natives EXCEPT ![c] =
       Deliver(c, k, cb, val)
         \o <<NativeCall("requestPermission", args[c].permission,
                         Undefined, Undefined, TRUE, Len(inner[c]) + 1),
              NativeCall("showAlert", Undefined, args[c].title,
                         args[c].message, TRUE, 0)>>]
  /\ inner' = [inner EXCEPT ![c] = Append(@, Pending)]
  /\ trace' = [trace EXCEPT ![c] = @ \o <<"requestPermission", RationaleAlertTag>>]
  /\ UNCHANGED <<handle, jobs>>

\* Mutant: title and message are swapped in the alert's options.
showRationaleAlertSwapped(c, k, cb, val) ==
  /\ natives' = [natives EXCEPT ![c] =
       Append(Deliver(c, k, cb, val),
              NativeCall("showAlert", Undefined, args[c].message,
                         args[c].title, TRUE, 0))]
  /\ trace' = [trace EXCEPT ![c] = Append(@, RationaleAlertTag)]
  /\ UNCHANGED <<handle, inner, jobs>>

\* DialogManagerAndroid.showAlert({title, message}, <dismiss>, requestPermission)
showRationaleAlert(c, k, cb, val) ==
  /\ natives' = [natives EXCEPT ![c] =
       Append(Deliver(c, k, cb, val),
              NativeCall("showAlert", Undefined, args[c].title,
                         args[c].message, TRUE, 0))]
  /\ trace' = [trace EXCEPT ![c] = Append(@, RationaleAlertTag)]
  /\ UNCHANGED <<handle, inner, jobs>>

\* Mutant: the rationale alert is shown whatever shouldShow is.
shouldShowSuccessAlwaysAlert(c, k, shouldShow, budget) ==
  /\ CanFire(c, k, budget)
  /\ natives[c][k].fn = "shouldShowRequestPermissionRationale"
  /\ showRationaleAlert(c, k, "success", shouldShow)
  /\ UNCHANGED <<PERMISSIONS, kind, args>>

\* (perm, shouldShow) => { if (shouldShow) showAlert(...) else requestPermission() }
shouldShowSuccess(c, k, shouldShow, budget) ==
  /\ CanFire(c, k, budget)
  /\ natives[c][k].fn = "shouldShowRequestPermissionRationale"
  /\ IF shouldShow = "true"
       THEN showRationaleAlert(c, k, "success", shouldShow)
       ELSE requestPermissionClosure(c, k, "success", shouldShow)
  /\ UNCHANGED <<PERMISSIONS, kind, args>>

\* Mutant: the error alert is shown on every failure, the query's included.
shouldShowFailureAlerts(c, k, error, budget) ==
  /\ CanFire(c, k, budget)
  /\ natives[c][k].fn = "shouldShowRequestPermissionRationale"
  /\ natives' = [natives EXCEPT ![c] =
       Append(Deliver(c, k, "failure", error),
              NativeCall("showAlert", Undefined, Undefined, ErrorMessage,
                         FALSE, 0))]
  /\ handle' = [handle EXCEPT ![c] = Reject(@, error)]
  /\ trace' = [trace EXCEPT ![c] = @ \o <<ErrorAlertTag, "reject">>]
  /\ UNCHANGED <<PERMISSIONS, kind, args, inner, jobs>>

\* Mutant: the query's error is dropped, the call fails without a value.
shouldShowFailureNoValue(c, k, error, budget) ==
  /\ CanFire(c, k, budget)
  /\ natives[c][k].fn = "shouldShowRequestPermissionRationale"
  /\ natives' = [natives EXCEPT ![c] = Deliver(c, k, "failure", error)]
  /\ handle' = [handle EXCEPT ![c] = Reject(@, Undefined)]
  /\ trace' = [trace EXCEPT ![c] = Append(@, "reject")]
  /\ UNCHANGED <<PERMISSIONS, kind, args, inner, jobs>>

\* (error) => reject(error) of shouldShowRequestPermissionRationale.
shouldShowFailure(c, k, error, budget) ==
  /\ CanFire(c, k, budget)
  /\ natives[c][k].fn = "shouldShowRequestPermissionRationale"
  /\ natives' = [natives EXCEPT ![c] = Deliver(c, k, "failure", error)]
  /\ handle' = [handle EXCEPT ![c] = Reject(@, error)]
  /\ trace' = [trace EXCEPT ![c] = Append(@, "reject")]
  /\ UNCHANGED <<PERMISSIONS, kind, args, inner, jobs>>

\* Mutant: the dismiss path shows the error alert and forgets reject().
rationaleAlertDismissNoReject(c, k, budget) ==
  /\ CanFire(c, k, budget)
  /\ natives[c][k].fn = "showAlert"
  /\ natives' = [natives EXCEPT ![c] =
       Append(Deliver(c, k, "onDismiss", Undefined),
              NativeCall("showAlert", Undefined, Undefined, ErrorMessage,
                         FALSE, 0))]
  /\ trace' = [trace EXCEPT ![c] = Append(@, ErrorAlertTag)]
  /\ UNCHANGED <<PERMISSIONS, kind, args, handle, inner, jobs>>

\* Mutant: the dismiss path shows the error alert and then requests the
\* permission all the same.
rationaleAlertDismissRequests(c, k, budget) ==
  /\ CanFire(c, k, budget)
  /\ natives[c][k].fn = "showAlert"
  /\ natives' = [natives EXCEPT ![c] =
       Deliver(c, k, "onDismiss", Undefined)
         \o <<NativeCall("showAlert", Undefined, Undefined, ErrorMessage, FALSE, 0),
              NativeCall("requestPermission", args[c].permission,
                         Undefined, Undefined, TRUE, Len(inner[c]) + 1)>>]
  /\ inner' = [inner EXCEPT ![c] = Append(@, Pending)]
  /\ handle' = [handle EXCEPT ![c] = Reject(@, Undefined)]
  /\ trace' = [trace EXCEPT ![c] = @ \o <<ErrorAlertTag, "reject", "requestPermission">>]
  /\ UNCHANGED <<PERMISSIONS, kind, args, jobs>>

\* Mutant: a dismissed dialog is reported as a denial, resolve(false).
rationaleAlertDismissDenies(c, k, budget) ==
  /\ CanFire(c, k, budget)
  /\ natives[c][k].fn = "showAlert"
  /\ natives' = [natives EXCEPT ![c] =
       Append(Deliver(c, k, "onDismiss", Undefined),
              NativeCall("showAlert", Undefined, Undefined, ErrorMessage,
                         FALSE, 0))]
  /\ handle' = [handle EXCEPT ![c] = Resolve(@, "false")]
  /\ trace' = [trace EXCEPT ![c] = @ \o <<ErrorAlertTag, "resolve">>]
  /\ UNCHANGED <<PERMISSIONS, kind, args, inner, jobs>>

\* Mutant: the dismiss path fails with the alert's message as error value.
rationaleAlertDismissMessage(c, k, budget) ==
  /\ CanFire(c, k, budget)
  /\ natives[c][k].fn = "showAlert"
  /\ natives' = [natives EXCEPT ![c] =
       Append(Deliver(c, k, "onDismiss", Undefined),
              NativeCall("showAlert", Undefined, Undefined, ErrorMessage,
                         FALSE, 0))]
  /\ handle' = [handle EXCEPT ![c] = Reject(@, ErrorMessage)]
  /\ trace' = [trace EXCEPT ![c] = @ \o <<ErrorAlertTag, "reject">>]
  /\ UNCHANGED <<PERMISSIONS, kind, args, inner, jobs>>

\* Second argument of the rationale showAlert:
\* () => { showAlert({message: 'Error Requesting Permissions'}, {}, {}); reject() }
\* The error alert is handed two objects that are not functions.
rationaleAlertDismiss(c, k, budget) ==
  /\ CanFire(c, k, budget)
  /\ natives[c][k].fn = "showAlert"
  /\ natives' = [natives EXCEPT ![c] =
       Append(Deliver(c, k, "onDismiss", Undefined),
              NativeCall("showAlert", Undefined, Undefined, ErrorMessage,
                         FALSE, 0))]
  /\ handle' = [handle EXCEPT ![c] = Reject(@, Undefined)]
  /\ trace' = [trace EXCEPT ![c] = @ \o <<ErrorAlertTag, "reject">>]
  /\ UNCHANGED <<PERMISSIONS, kind, args, inner, jobs>>

\* Third argument of the rationale showAlert: the requestPermission closure.
rationaleAlertProceed(c, k, budget) ==
  /\ CanFire(c, k, budget)
  /\ natives[c][k].fn = "showAlert"
  /\ requestPermissionClosure(c, k, "onProceed", Undefined)
  /\ UNCHANGED <<PERMISSIONS, kind, args>>

\* The user acknowledges the 'Error Requesting Permissions' alert.  It was
\* given no functions, so no JavaScript runs.
errorAlertAcknowledged(c, k) ==
  /\ c \in Calls
  /\ k \in DOMAIN natives[c]
  /\ natives[c][k].fn = "showAlert"
  /\ ~natives[c][k].callable
  /\ ~natives[c][k].acked
  /\ natives' = [natives EXCEPT ![c][k].acked = TRUE]
  /\ UNCHANGED <<PERMISSIONS, kind, args, handle, inner, trace, jobs>>

\* ------------------------------------------------------------- promise jobs
\* .then((granted) => resolve(granted)) on the inner promise: a fulfilled
\* inner promise resolves the outer one; a rejected one is passed on to
\* .catch.
thenReaction ==
  /\ jobs # <<>>
  /\ Head(jobs).stage = "then"
  /\ LET c == Head(jobs).call
         p == inner[c][Head(jobs).p]
     IN IF p.state = "fulfilled"
          THEN /\ handle' = [handle EXCEPT ![c] = Resolve(@, p.value)]
               /\ trace' = [trace EXCEPT ![c] = Append(@, "resolve")]
               /\ jobs' = Tail(jobs)
          ELSE /\ jobs' = Append(Tail(jobs), [Head(jobs) EXCEPT !.stage = "catch"])
               /\ UNCHANGED <<handle, trace>>
  /\ UNCHANGED <<PERMISSIONS, kind, args, inner, natives>>

\* Mutant: the request's error value is dropped, .catch(() => reject()).
catchReactionNoValue ==
  /\ jobs # <<>>
  /\ Head(jobs).stage = "catch"
  /\ LET c == Head(jobs).call
     IN /\ handle' = [handle EXCEPT ![c] = Reject(@, Undefined)]
        /\ trace' = [trace EXCEPT ![c] = Append(@, "reject")]
  /\ jobs' = Tail(jobs)
  /\ UNCHANGED <<PERMISSIONS, kind, args, inner, natives>>

\* Mutant: the request's error is swallowed, .catch(() => resolve(false)).
catchReactionSwallows ==
  /\ jobs # <<>>
  /\ Head(jobs).stage = "catch"
  /\ LET c == Head(jobs).call
     IN /\ handle' = [handle EXCEPT ![c] = Resolve(@, "false")]
        /\ trace' = [trace EXCEPT ![c] = Append(@, "resolve")]
  /\ jobs' = Tail(jobs)
  /\ UNCHANGED <<PERMISSIONS, kind, args, inner, natives>>

\* .catch((err) => reject(err)) after the .then above.
catchReaction ==
  /\ jobs # <<>>
  /\ Head(jobs).stage = "catch"
  /\ LET c == Head(jobs).call
         p == inner[c][Head(jobs).p]
     IN /\ handle' = [handle EXCEPT ![c] = Reject(@, p.value)]
        /\ trace' = [trace EXCEPT ![c] = Append(@, "reject")]
  /\ jobs' = Tail(jobs)
  /\ UNCHANGED <<PERMISSIONS, kind, args, inner, natives>>

\* ------------------------------------------------------------ specification
Init ==
  /\ PERMISSIONS = Catalog
  /\ kind = <<>>
  /\ args = <<>>
  /\ handle = <<>>
  /\ inner = <<>>
  /\ natives = <<>>
  /\ trace = <<>>
  /\ jobs = <<>>

StepOn(limit, budget, permissions, errors) ==
  \/ \E permission \in permissions : checkPermission(permission, limit)
  \/ \E permission \in permissions : requestPermission(permission, limit)
  \/ \E permission \in permissions, title \in Titles, message \in Messages :
       requestPermissionWithRationale(permission, title, message, limit)
  \/ \E c \in Calls : \E k \in DOMAIN natives[c], result \in Bools :
       checkPermissionSuccess(c, k, result, budget)
  \/ \E c \in Calls : \E k \in DOMAIN natives[c], error \in errors :
       checkPermissionFailure(c, k, error, budget)
  \/ \E c \in Calls : \E k \in DOMAIN natives[c], result \in Bools :
       requestPermissionSuccess(c, k, result, budget)
  \/ \E c \in Calls : \E k \in DOMAIN natives[c], error \in errors :
       requestPermissionFailure(c, k, error, budget)
  \/ \E c \in Calls : \E k \in DOMAIN natives[c], shouldShow \in Bools :
       shouldShowSuccess(c, k, shouldShow, budget)
  \/ \E c \in Calls : \E k \in DOMAIN natives[c], error \in errors :
       shouldShowFailure(c, k, error, budget)
  \/ \E c \in Calls : \E k \in DOMAIN natives[c] : rationaleAlertDismiss(c, k, budget)
  \/ \E c \in Calls : \E k \in DOMAIN natives[c] : rationaleAlertProceed(c, k, budget)
  \/ \E c \in Calls : \E k \in DOMAIN natives[c] : errorAlertAcknowledged(c, k)
  \/ thenReaction
  \/ catchReaction

\* The steps with every permission identifier and every error value.
Step(limit, budget) == StepOn(limit, budget, Permissions, Errors)

\* The native layer keeps the callback contract: at most one callback per
\* native call.
Next == Step(MaxCalls, 0)

Spec == Init /\ [][Next]_vars

\* One public call against a native layer that may call back more than
\* once, or call both callbacks of a pair.
NextRefire == Step(1, MaxExtra)

SpecRefire == Init /\ [][NextRefire]_vars

\* Termination does not depend on which identifier or error value is passed
\* around: the fair specification draws them from one-element sets.
FairPermissions == {"not.a.permission"}
FairErrors == {"E_PERMISSION"}

NextFair == StepOn(MaxCalls, 0, FairPermissions, FairErrors)

\* The native layer answers native call k of call c with one of its
\* callbacks.
NativeAnswers(c, k) ==
  \/ \E result \in Bools : checkPermissionSuccess(c, k, result, 0)
  \/ \E error \in FairErrors : checkPermissionFailure(c, k, error, 0)
  \/ \E result \in Bools : requestPermissionSuccess(c, k, result, 0)
  \/ \E error \in FairErrors : requestPermissionFailure(c, k, error, 0)
  \/ \E shouldShow \in Bools : shouldShowSuccess(c, k, shouldShow, 0)
  \/ \E error \in FairErrors : shouldShowFailure(c, k, error, 0)
  \/ rationaleAlertDismiss(c, k, 0)
  \/ rationaleAlertProceed(c, k, 0)

\* The native layer eventually fires one callback for every native call it
\* was handed callbacks for (a call makes at most three native calls), and
\* the JavaScript engine runs queued promise jobs.  Nothing obliges the
\* application to make a public call.
Fairness ==
  /\ \A c \in 1..MaxCalls : \A k \in 1..3 : WF_vars(NativeAnswers(c, k))
  /\ WF_vars(thenReaction)
  /\ WF_vars(catchReaction)

SpecFair == Init /\ [][NextFair]_vars /\ Fairness

\* ------------------------------------------------------------------ claims
Rationale(c) == kind[c] = "requestPermissionWithRationale"

\* Callback cb with value val was delivered to a native call fn of call c.
Got(c, fn, cb, val) ==
  \E k \in DOMAIN natives[c] :
    /\ natives[c][k].fn = fn
    /\ \E i \in DOMAIN natives[c][k].cbs :
         natives[c][k].cbs[i] = Callback(cb, val)

QueryFn == "shouldShowRequestPermissionRationale"

NativeRequestInvoked(c) ==
  \E k \in DOMAIN natives[c] : natives[c][k].fn = "requestPermission"

AnyAlertShown(c) ==
  \E k \in DOMAIN natives[c] : natives[c][k].fn = "showAlert"

RationaleAlertShown(c) ==
  \E k \in DOMAIN natives[c] :
    /\ natives[c][k].fn = "showAlert"
    /\ natives[c][k].callable
    /\ natives[c][k].title = args[c].title
    /\ natives[c][k].message = args[c].message

ErrorAlertShown(c) ==
  \E k \in DOMAIN natives[c] :
    /\ natives[c][k].fn = "showAlert"
    /\ ~natives[c][k].callable
    /\ natives[c][k].message = ErrorMessage

DismissFired(c) == Got(c, "showAlert", "onDismiss", Undefined)
ProceedFired(c) == Got(c, "showAlert", "onProceed", Undefined)

\* A promise job of call c is still queued.
JobQueued(c) == \E i \in DOMAIN jobs : jobs[i].call = c

Fulfilled(v) == [state |-> "fulfilled", value |-> v]
Rejected(v) == [state |-> "rejected", value |-> v]

\* C1: in every requestPermissionWithRationale call the native
\* requestPermission is invoked if and only if the rationale query succeeded
\* with false, or succeeded with true and the dialog's proceed callback
\* fired; in every other run it is not invoked.
C1_RequestIffPhase2 ==
  \A c \in Calls :
    Rationale(c) =>
      (NativeRequestInvoked(c) <=>
         \/ Got(c, QueryFn, "success", "false")
         \/ Got(c, QueryFn, "success", "true") /\ ProceedFired(c))

C1_Witness ==
  \E c \in Calls :
    /\ Rationale(c)
    /\ Got(c, QueryFn, "success", "true")
    /\ ProceedFired(c)
    /\ NativeRequestInvoked(c)

\* C2: when the rationale dialog's dismiss path fires, the overall result is
\* a failure, never a fulfilment with false, and the native requestPermission
\* is never invoked for that call.
C2_DismissFailsWithoutRequest ==
  \A c \in Calls :
    (Rationale(c) /\ DismissFired(c)) =>
      /\ handle[c].state = "rejected"
      /\ ~NativeRequestInvoked(c)

C2_Witness ==
  \E c \in Calls :
    /\ Rationale(c)
    /\ DismissFired(c)
    /\ handle[c].state = "rejected"
    /\ \A k \in DOMAIN natives[c] : natives[c][k].fn # "requestPermission"

\* C3: if the rationale query fails with error e, the call fails with that
\* same e, no dialog (rationale alert or error alert) is shown and the native
\* requestPermission is not invoked.
C3_QueryFailurePropagates ==
  \A c \in Calls : \A e \in Errors :
    (Rationale(c) /\ Got(c, QueryFn, "failure", e)) =>
      /\ handle[c] = Rejected(e)
      /\ ~AnyAlertShown(c)
      /\ ~NativeRequestInvoked(c)

C3_Witness ==
  \E c \in Calls :
    /\ Rationale(c)
    /\ Got(c, QueryFn, "failure", "E_PERMISSION")
    /\ handle[c] = Rejected("E_PERMISSION")
    /\ Len(natives[c]) = 1

\* C4: the handle of every call is single-shot: once it is fulfilled or
\* failed, no later step changes its outcome or its value, whatever callbacks
\* the native layer fires afterwards (a second callback of a pair, the other
\* callback of a pair, proceed after dismiss).
C4_SingleShot ==
  [][\A c \in Calls :
       handle[c].state # "pending" => handle'[c] = handle[c]]_vars

\* Dismiss, then proceed, then the native request granted and its promise
\* jobs run: the call is still the value-less failure.
C4_Witness ==
  \E c \in Calls :
    /\ Rationale(c)
    /\ \E k \in DOMAIN natives[c] :
         natives[c][k].cbs = <<Callback("onDismiss", Undefined),
                               Callback("onProceed", Undefined)>>
    /\ \E j \in DOMAIN inner[c] : inner[c][j] = Fulfilled("true")
    /\ jobs = <<>>
    /\ handle[c] = Rejected(Undefined)

\* The outcome of a promise whose native callback pair received cb first.
Settled(cb) ==
  IF cb.cb = "success" THEN Fulfilled(cb.val) ELSE Rejected(cb.val)

\* C5: once requestPermissionWithRationale reached phase 2 and the native
\* request answered, the overall result is the result of requestPermission:
\* fulfilled with the boolean the native request reports, or failed with its
\* error; a requestPermission call given the same answer has the same result.
C5_Phase2Propagates ==
  \A c \in Calls :
    Rationale(c) =>
      \A k \in DOMAIN natives[c] :
        (/\ natives[c][k].fn = "requestPermission"
         /\ natives[c][k].cbs # <<>>
         /\ ~JobQueued(c)) =>
           /\ handle[c] = Settled(natives[c][k].cbs[1])
           /\ \A d \in Calls :
                (/\ kind[d] = "requestPermission"
                 /\ natives[d][1].cbs = natives[c][k].cbs) =>
                   handle[d] = handle[c]

C5_Witness ==
  \E c \in Calls :
    /\ Rationale(c)
    /\ ProceedFired(c)
    /\ Got(c, "requestPermission", "failure", "E_PERMISSION")
    /\ ~JobQueued(c)
    /\ handle[c] = Rejected("E_PERMISSION")

\* C6: for checkPermission and requestPermission, a native success callback
\* with boolean b fulfils the result with exactly b (false is a fulfilment,
\* not a failure) and a native failure callback with error e fails it with
\* exactly e.
C6_CallbackToPromise ==
  \A c \in Calls :
    kind[c] \in {"checkPermission", "requestPermission"} =>
      /\ \A b \in Bools :
           natives[c][1].cbs = <<Callback("success", b)>> =>
             handle[c] = [state |-> "fulfilled", value |-> b]
      /\ \A e \in Errors :
           natives[c][1].cbs = <<Callback("failure", e)>> =>
             handle[c] = [state |-> "rejected", value |-> e]

C6_Witness ==
  \E c \in Calls :
    /\ kind[c] = "checkPermission"
    /\ natives[c][1].cbs = <<Callback("success", "false")>>
    /\ handle[c] = Fulfilled("false")

\* C7: when the dialog's dismiss path fires, the 'Error Requesting
\* Permissions' alert is shown first and the overall result then fails with
\* no error value; acknowledged or not, the alert leaves that failure as it
\* is.
C7_DismissAlertThenFail ==
  \A c \in Calls :
    (Rationale(c) /\ DismissFired(c)) =>
      /\ ErrorAlertShown(c)
      /\ handle[c] = Rejected(Undefined)
      /\ \E i \in DOMAIN trace[c] :
           /\ trace[c][i] = ErrorAlertTag
           /\ i + 1 \in DOMAIN trace[c]
           /\ trace[c][i + 1] = "reject"
           /\ \A j \in 1..i : trace[c][j] \notin {"resolve", "reject"}

C7_Witness ==
  \E c \in Calls :
    /\ Rationale(c)
    /\ DismissFired(c)
    /\ \E k \in DOMAIN natives[c] :
         /\ natives[c][k].message = ErrorMessage
         /\ natives[c][k].acked
    /\ handle[c] = Rejected(Undefined)

\* The result of call c as its own callbacks determine it.
Outcome(c) ==
  LET answered == {k \in DOMAIN natives[c] :
                     natives[c][k].callable /\ natives[c][k].cbs # <<>>}
      last == CHOOSE k \in answered : \A m \in answered : m <= k
  IN IF answered = {} THEN Pending
     ELSE IF natives[c][last].fn \in {"checkPermission", "requestPermission"}
       THEN Settled(natives[c][last].cbs[1])
     ELSE IF natives[c][last].fn = QueryFn
       THEN IF natives[c][last].cbs[1].cb = "failure"
              THEN Rejected(natives[c][last].cbs[1].val)
              ELSE Pending
     ELSE IF natives[c][last].cbs[1].cb = "onDismiss"
       THEN Rejected(Undefined)
       ELSE Pending

\* Everything that belongs to call c.
CallState(c) == <<kind[c], args[c], handle[c], inner[c], natives[c], trace[c]>>

\* C8: concurrently pending calls are independent: a step changes the state
\* of at most one call, so a callback delivered to one call never settles or
\* changes another call's result, and the result of each call is the one its
\* own callbacks determine.
C8_Independent ==
  /\ [](\A c \in Calls : ~JobQueued(c) => handle[c] = Outcome(c))
  /\ [][\A c \in Calls : \A d \in Calls :
          (c # d /\ CallState(c)' # CallState(c)) =>
            CallState(d)' = CallState(d)]_vars

\* Two calls for the same permission, one failed and the other still pending.
C8_Witness ==
  \E c \in Calls : \E d \in Calls :
    /\ c # d
    /\ kind[c] = "requestPermission"
    /\ kind[d] = "requestPermission"
    /\ args[c].permission = args[d].permission
    /\ handle[c].state = "rejected"
    /\ handle[d] = Pending

\* C9: the rationale alert {title, message} is shown in a call if and only
\* if the rationale query succeeded with true; when it succeeded with false
\* the native request is issued and no dialog is shown.
C9_AlertOnlyWhenNecessary ==
  \A c \in Calls :
    Rationale(c) =>
      /\ RationaleAlertShown(c) <=> Got(c, QueryFn, "success", "true")
      /\ Got(c, QueryFn, "success", "false") =>
           (NativeRequestInvoked(c) /\ ~AnyAlertShown(c))

C9_Witness ==
  \E c \in Calls :
    /\ Rationale(c)
    /\ Got(c, QueryFn, "success", "false")
    /\ NativeRequestInvoked(c)
    /\ ~AnyAlertShown(c)

\* C10: the bridge never settles a result on its own: while a native call
\* handed callbacks has received none, the handle of its call is pending, and
\* a handle changes only in a step that delivers a callback to its call or
\* runs a promise job.
C10_NoTimeout ==
  /\ [](\A c \in Calls : \A k \in DOMAIN natives[c] :
          (natives[c][k].callable /\ natives[c][k].cbs = <<>>) =>
            handle[c] = Pending)
  /\ [][\A c \in Calls :
          handle'[c] # handle[c] =>
            (natives'[c] # natives[c] \/ jobs' # jobs)]_vars

\* The rationale dialog is up and unanswered while another call has settled.
C10_Witness ==
  \E c \in Calls : \E d \in Calls :
    /\ Rationale(c)
    /\ RationaleAlertShown(c)
    /\ natives[c][Len(natives[c])].cbs = <<>>
    /\ handle[c] = Pending
    /\ handle[d].state # "pending"

\* Number of native calls fn made on behalf of call c.
CountFn(c, fn) ==
  Cardinality({k \in DOMAIN natives[c] : natives[c][k].fn = fn})

RationaleAlertCount(c) ==
  Cardinality({k \in DOMAIN natives[c] :
                 natives[c][k].fn = "showAlert" /\ natives[c][k].callable})

\* Position of call c in Start -> AwaitingRationaleCheck (1) ->
\* AwaitingDialog (2) -> AwaitingNativeRequest (3) -> Fulfilled | Failed (4),
\* read from the last native call made and the handle.
Rank(c) ==
  IF handle[c].state # "pending" THEN 4
  ELSE IF natives[c][Len(natives[c])].fn = QueryFn THEN 1
  ELSE IF natives[c][Len(natives[c])].fn = "showAlert" THEN 2
  ELSE 3

\* C11: no retries or loops: a checkPermission or requestPermission call
\* makes exactly one native call, of the same name; a
\* requestPermissionWithRationale call makes exactly one rationale query, at
\* most one rationale alert and at most one native requestPermission; a call
\* never moves back to an earlier state, fails (not fulfils) when it ends
\* before the native request, and once Fulfilled or Failed makes no further
\* native call.
C11_NoRetriesNoLoops ==
  /\ [](\A c \in Calls :
          /\ kind[c] \in {"checkPermission", "requestPermission"} =>
               (Len(natives[c]) = 1 /\ natives[c][1].fn = kind[c])
          /\ Rationale(c) =>
               /\ CountFn(c, QueryFn) = 1
               /\ RationaleAlertCount(c) <= 1
               /\ CountFn(c, "requestPermission") <= 1
               /\ CountFn(c, "checkPermission") = 0)
  /\ [][\A c \in Calls :
          /\ Rank(c)' >= Rank(c)
          /\ (Rank(c) < 3 /\ Rank(c)' = 4) => handle'[c].state = "rejected"
          /\ Rank(c) = 4 =>
               (handle'[c] = handle[c] /\ Len(natives'[c]) = Len(natives[c]))]_vars

\* A call that went query -> dialog -> native request -> Fulfilled.
C11_Witness ==
  \E c \in Calls :
    /\ Rationale(c)
    /\ Len(natives[c]) = 3
    /\ RationaleAlertCount(c) = 1
    /\ CountFn(c, "requestPermission") = 1
    /\ handle[c] = Fulfilled("true")

\* The platform strings of the catalog.
CatalogValues == {Catalog[n] : n \in DOMAIN Catalog}

\* A failure callback, or the dialog's dismiss callback, was delivered to
\* call c.
NativeFailureDelivered(c) ==
  \E k \in DOMAIN natives[c] : \E i \in DOMAIN natives[c][k].cbs :
    natives[c][k].cbs[i].cb \in {"failure", "onDismiss"}

\* C12: identifiers are not validated: every native checkPermission,
\* requestPermission and rationale query made for a call receives exactly the
\* id the caller passed, catalog value or not, the rationale alert receives
\* exactly the caller's title and message, and a call fails only after the
\* native layer reported a failure or the dialog was dismissed.
C12_ArgumentsForwarded ==
  \A c \in Calls :
    /\ \A k \in DOMAIN natives[c] :
         /\ natives[c][k].fn \in {"checkPermission", "requestPermission", QueryFn} =>
              natives[c][k].permission = args[c].permission
         /\ (natives[c][k].fn = "showAlert" /\ natives[c][k].callable) =>
              /\ natives[c][k].title = args[c].title
              /\ natives[c][k].message = args[c].message
    /\ natives[c][1].fn # "showAlert"
    /\ handle[c].state = "rejected" => NativeFailureDelivered(c)

\* An id outside the catalog went through the query, the dialog and the
\* native request, and the call was fulfilled.
C12_Witness ==
  \E c \in Calls :
    /\ Rationale(c)
    /\ args[c].permission \notin CatalogValues
    /\ Len(natives[c]) = 3
    /\ natives[c][2].title = "T"
    /\ natives[c][2].message = "M"
    /\ natives[c][3].fn = "requestPermission"
    /\ natives[c][3].permission = args[c].permission
    /\ handle[c].state = "fulfilled"

\* C13: the permission catalog is never mutated: whatever calls and
\* callbacks have happened, PERMISSIONS has the keys and values it was
\* constructed with, and CAMERA maps to "android.permission.CAMERA".
C13_CatalogUnchanged ==
  /\ PERMISSIONS = Catalog
  /\ DOMAIN PERMISSIONS = DOMAIN Catalog
  /\ PERMISSIONS.CAMERA = "android.permission.CAMERA"

\* A call of each of two operations for an id outside the catalog has
\* settled.
C13_Witness ==
  /\ PERMISSIONS.CAMERA = "android.permission.CAMERA"
  /\ \E c \in Calls : \E d \in Calls :
       /\ Rationale(c)
       /\ kind[d] = "checkPermission"
       /\ args[c].permission \notin CatalogValues
       /\ args[d].permission \notin CatalogValues
       /\ handle[c].state = "fulfilled"
       /\ handle[d].state = "rejected"

\* C14: with the native layer reporting only non-empty error values (every
\* value of Errors differs from Undefined), a call fails without a value if
\* and only if it is a requestPermissionWithRationale call whose dialog's
\* dismiss callback fired; every other failure carries the error value of a
\* failure callback delivered to that call.
C14_EmptyFailureIsDismissal ==
  \A c \in Calls :
    /\ handle[c] = Rejected(Undefined) <=> (Rationale(c) /\ DismissFired(c))
    /\ (handle[c].state = "rejected" /\ ~DismissFired(c)) =>
         /\ handle[c].value \in Errors
         /\ \E k \in DOMAIN natives[c] :
              natives[c][k].cbs = <<Callback("failure", handle[c].value)>>

\* One call failed by dismissal, another by the native request's error
\* after the dialog proceeded.
C14_Witness ==
  \E c \in Calls : \E d \in Calls :
    /\ Rationale(c)
    /\ DismissFired(c)
    /\ handle[c] = Rejected(Undefined)
    /\ Rationale(d)
    /\ ProceedFired(d)
    /\ handle[d] = Rejected("E_INVALID_ACTIVITY")

\* C15: if the native layer eventually fires one callback for every native
\* call and dialog it is handed, every call of the three operations
\* eventually is Fulfilled or Failed; no path of the rationale flow leaves
\* the handle pending.
C15_Terminates ==
  \A c \in 1..MaxCalls :
    (c \in Calls) ~> (c \in Calls /\ handle[c].state # "pending")

\* The dismiss path and the shouldShow = false path have both ended.
C15_Witness ==
  \E c \in Calls : \E d \in Calls :
    /\ Rationale(c)
    /\ DismissFired(c)
    /\ handle[c].state = "rejected"
    /\ Rationale(d)
    /\ Got(d, QueryFn, "success", "false")
    /\ handle[d] = Fulfilled("false")

ErrorAlertCount(c) ==
  Cardinality({k \in DOMAIN natives[c] :
                 /\ natives[c][k].fn = "showAlert"
                 /\ ~natives[c][k].callable
                 /\ natives[c][k].message = ErrorMessage})

\* Dismiss callbacks delivered to the dialogs of call c.
DismissCount(c) ==
  Cardinality({k \in DOMAIN natives[c] :
                 \E i \in DOMAIN natives[c][k].cbs :
                   natives[c][k].cbs[i].cb = "onDismiss"})

\* C16: the 'Error Requesting Permissions' alert is shown only on the
\* dialog-dismiss path: never when the rationale query fails, never when the
\* native requestPermission fails or reports false, never in a
\* checkPermission or requestPermission call, and once per call when the
\* dialog's dismiss callback fires once.
C16_ErrorAlertOnlyOnDismiss ==
  \A c \in Calls :
    /\ ErrorAlertShown(c) => (Rationale(c) /\ DismissFired(c))
    /\ ErrorAlertCount(c) = DismissCount(c)
    /\ ErrorAlertCount(c) <= 1
    /\ (\E e \in Errors : Got(c, QueryFn, "failure", e)) => ErrorAlertCount(c) = 0
    /\ (\E e \in Errors : Got(c, "requestPermission", "failure", e)) =>
         ErrorAlertCount(c) = 0
    /\ Got(c, "requestPermission", "success", "false") => ErrorAlertCount(c) = 0
    /\ kind[c] \in {"checkPermission", "requestPermission"} =>
         ErrorAlertCount(c) = 0

\* One call with the error alert after a dismissal, one whose native request
\* failed after the dialog proceeded, without it.
C16_Witness ==
  \E c \in Calls : \E d \in Calls :
    /\ DismissCount(c) = 1
    /\ ErrorAlertCount(c) = 1
    /\ Rationale(d)
    /\ RationaleAlertShown(d)
    /\ handle[d].state = "rejected"
    /\ ErrorAlertCount(d) = 0

IsRationaleAlert(r) == r.fn = "showAlert" /\ r.callable

\* C17: within a requestPermissionWithRationale call the rationale query is
\* the first native call; the rationale alert is shown only in the step that
\* delivers the query's success callback with true; the native
\* requestPermission is issued only in the step that delivers the query's
\* success callback with false or the dialog's proceed callback, so never
\* while a dialog shown before it is still awaiting a response.
C17_Ordering ==
  /\ [](\A c \in Calls :
          Rationale(c) =>
            /\ natives[c][1].fn = QueryFn
            /\ trace[c][1] = QueryFn
            /\ \A k \in DOMAIN natives[c] :
                 /\ IsRationaleAlert(natives[c][k]) =>
                      /\ k > 1
                      /\ natives[c][1].cbs = <<Callback("success", "true")>>
                 /\ natives[c][k].fn = "requestPermission" =>
                      /\ k > 1
                      /\ natives[c][1].cbs # <<>>
                      /\ natives[c][1].cbs[1].cb = "success"
                      /\ \A m \in DOMAIN natives[c] :
                           IsRationaleAlert(natives[c][m]) =>
                             /\ m < k
                             /\ natives[c][m].cbs = <<Callback("onProceed", Undefined)>>)
  /\ [][\A c \in Calls :
          Rationale(c) =>
            /\ RationaleAlertCount(c)' > RationaleAlertCount(c) =>
                 /\ natives[c][1].cbs = <<>>
                 /\ Got(c, QueryFn, "success", "true")'
            /\ CountFn(c, "requestPermission")' > CountFn(c, "requestPermission") =>
                 \/ natives[c][1].cbs = <<>> /\ Got(c, QueryFn, "success", "false")'
                 \/ ~ProceedFired(c) /\ ProceedFired(c)']_vars

\* The dialog is up and unanswered, and no native request has been made.
C17_Witness ==
  \E c \in Calls :
    /\ Rationale(c)
    /\ Len(natives[c]) = 2
    /\ IsRationaleAlert(natives[c][2])
    /\ natives[c][2].cbs = <<>>
    /\ natives[c][1].cbs = <<Callback("success", "true")>>
    /\ trace[c] = <<QueryFn, RationaleAlertTag>>

====
